---- MODULE Spec2Model ----
(***************************************************************************)
(* Model of src/server.js: the gold price sync service.                    *)
(*                                                                         *)
(*   - the pure helpers (extractWeightAndPurity, convertOunceToGram,       *)
(*     getPurityFactor, calculateFinalPrice) are operators;                *)
(*   - syncGoldPrices is a state machine per invocation ("cycle"): one     *)
(*     action per stretch of code between two awaits;                      *)
(*   - the scheduler (line 165 and setInterval, line 168) starts cycles    *)
(*     with no guard on a cycle still being in progress;                   *)
(*   - the /health handler reads the three module-level variables.         *)
(*                                                                         *)
(* JavaScript values are records of one shape, [t, n, d]: a number is the  *)
(* rational n/d, NaN, null and undefined are values of their own.          *)
(* Strings are sequences of one-character strings.                         *)
(***************************************************************************)
EXTENDS Integers, Sequences, FiniteSets, TLC

(***************************************************************************)
(* Bounds of the model.                                                    *)
(***************************************************************************)
\* longest identifier of the exhaustive identifier set (SpecItem)
MaxLen == 3
\* largest purity grade handed to getPurityFactor (SpecFactor)
MaxGrade == 120
\* number of invocations of syncGoldPrices (one at start, the rest by ticks)
MaxCycles == 2
\* longest product list the catalog returns
MaxProducts == 2
\* largest weight of the weight range handed to calculateFinalPrice, in
\* tenths of a gram (SpecPrice)
MaxTenths == 12

(***************************************************************************)
(* JavaScript values.                                                      *)
(***************************************************************************)
Num(n, d) == [t |-> "number", n |-> n, d |-> d]

\* a decimal n/d (d a power of ten) without trailing zeros, so that equal
\* numbers are equal records
RECURSIVE Decimal(_, _)
Decimal(n, d) ==
  IF d > 1 /\ n % 10 = 0 THEN Decimal(n \div 10, d \div 10) ELSE Num(n, d)

Number(n) == Num(n, 1)
NaN == [t |-> "NaN", n |-> 0, d |-> 1]
Null == [t |-> "null", n |-> 0, d |-> 1]
Undefined == [t |-> "undefined", n |-> 0, d |-> 1]

\* the values a number variable of the program may hold
Values == [t : {"number", "NaN", "null", "undefined"}, n : Int, d : Int]

IsNumber(v) == v.t = "number"

\* JavaScript truthiness of a number, NaN, null or undefined
Truthy(v) == v.t = "number" /\ v.n # 0

\* a || b
OrElse(a, b) == IF Truthy(a) THEN a ELSE b

\* identifiers: a string value or null
Str(s) == [t |-> "string", s |-> s]
NullStr == [t |-> "null", s |-> <<>>]

(***************************************************************************)
(* String primitives used by extractWeightAndPurity.  Those that work on   *)
(* the result of another one are functions: a function's argument is       *)
(* computed once, before the function is applied.                          *)
(***************************************************************************)
Digits == {"0", "1", "2", "3", "4", "5", "6", "7", "8", "9"}

DigitVal(c) ==
  CASE c = "0" -> 0 [] c = "1" -> 1 [] c = "2" -> 2 [] c = "3" -> 3
    [] c = "4" -> 4 [] c = "5" -> 5 [] c = "6" -> 6 [] c = "7" -> 7
    [] c = "8" -> 8 [] c = "9" -> 9

\* String.prototype.toUpperCase, on the letters the identifiers use
UpperChar(c) ==
  CASE c = "g" -> "G" [] c = "k" -> "K" [] c = "o" -> "O"
    [] c = "l" -> "L" [] c = "d" -> "D" [] OTHER -> c

toUpperCase(s) == [i \in 1..Len(s) |-> UpperChar(s[i])]

\* s.includes(c) for a one-character c
includesChar(s, c) == \E i \in 1..Len(s) : s[i] = c

\* s.includes(w) for a string w
includes(s, w) ==
  \E i \in 0..(Len(s) - Len(w)) : \A j \in 1..Len(w) : s[i + j] = w[j]

\* s.replace(c, ""): only the first occurrence of c is removed
replaceFirst[s \in Seq(STRING), c \in STRING] ==
  IF ~includesChar(s, c) THEN s
  ELSE LET i == CHOOSE k \in 1..Len(s) :
                  s[k] = c /\ \A m \in 1..(k - 1) : s[m] # c
       IN  SubSeq(s, 1, i - 1) \o SubSeq(s, i + 1, Len(s))

\* s.split("-"): the tokens between hyphens, empty tokens included
split[s \in Seq(STRING)] ==
  IF ~includesChar(s, "-") THEN <<s>>
  ELSE LET i == CHOOSE k \in 1..Len(s) :
                  s[k] = "-" /\ \A m \in 1..(k - 1) : s[m] # "-"
       IN  <<SubSeq(s, 1, i - 1)>> \o split[SubSeq(s, i + 1, Len(s))]

\* parts.find(p => p.includes(c)): the first such token, or undefined (<<>>
\* stands for it: an empty token includes nothing and is falsy as well)
find[parts \in Seq(Seq(STRING)), c \in STRING] ==
  IF \E i \in 1..Len(parts) : includesChar(parts[i], c)
  THEN parts[CHOOSE k \in 1..Len(parts) :
               includesChar(parts[k], c)
               /\ \A m \in 1..(k - 1) : ~includesChar(parts[m], c)]
  ELSE <<>>

\* length of the longest prefix of s made of digits
RECURSIVE digitPrefix(_)
digitPrefix(s) ==
  IF s = <<>> \/ Head(s) \notin Digits THEN 0 ELSE 1 + digitPrefix(Tail(s))

\* the decimal value of a string of digits (0 for the empty string)
RECURSIVE digitsValue(_)
digitsValue(s) ==
  IF s = <<>> THEN 0
  ELSE 10 * digitsValue(SubSeq(s, 1, Len(s) - 1)) + DigitVal(s[Len(s)])

RECURSIVE Pow10(_)
Pow10(k) == IF k = 0 THEN 1 ELSE 10 * Pow10(k - 1)

\* parseInt(s): the leading digits, NaN when there is none. (A token holds
\* no "-": it is the delimiter. Whitespace, "+" and the 0X prefix are outside
\* the alphabet of the model.)
parseInt[s \in Seq(STRING)] ==
  LET k == digitPrefix(s)
  IN  IF k = 0 THEN NaN ELSE Number(digitsValue(SubSeq(s, 1, k)))

\* parseFloat(s): leading digits, then optionally "." and digits; NaN when
\* the prefix holds no digit at all. (Exponents are outside the alphabet.)
parseFloat[s \in Seq(STRING)] ==
  LET k == digitPrefix(s)
      rest == SubSeq(s, k + 1, Len(s))
      f == IF rest # <<>> /\ Head(rest) = "." THEN digitPrefix(Tail(rest)) ELSE 0
  IN  IF k = 0 /\ f = 0 THEN NaN
      ELSE Decimal(digitsValue(SubSeq(s, 1, k)) * Pow10(f)
                     + digitsValue(SubSeq(rest, 2, f + 1)),
                   Pow10(f))

\* extractWeightAndPurity with a default weight of 1 instead of 0
extractWeightAndPurityDefaultOne(sku) ==
  IF sku.t = "null" \/ sku.s = <<>>
  THEN [purity |-> Number(24), weight |-> Number(0)]
  ELSE LET parts == split[toUpperCase(sku.s)]
           purityPart == find[parts, "K"]
           weightPart == find[parts, "G"]
       IN  [purity |-> IF purityPart # <<>>
                       THEN parseInt[replaceFirst[purityPart, "K"]]
                       ELSE Number(24),
            weight |-> IF weightPart # <<>>
                       THEN parseFloat[replaceFirst[weightPart, "G"]]
                       ELSE Number(1)]

(***************************************************************************)
(* extractWeightAndPurity (lines 38-51).  No call inside the try block     *)
(* throws on a string, so the catch block is never entered.                *)
(***************************************************************************)
extractWeightAndPurity(sku) ==
  IF sku.t = "null" \/ sku.s = <<>>
  THEN [purity |-> Number(24), weight |-> Number(0)]
  ELSE LET parts == split[toUpperCase(sku.s)]
           purityPart == find[parts, "K"]
           weightPart == find[parts, "G"]
       IN  [purity |-> IF purityPart # <<>>
                       THEN parseInt[replaceFirst[purityPart, "K"]]
                       ELSE Number(24),
            weight |-> IF weightPart # <<>>
                       THEN parseFloat[replaceFirst[weightPart, "G"]]
                       ELSE Number(0)]

(***************************************************************************)
(* Price arithmetic (lines 52-79).  The code computes in double precision; *)
(* the model computes the exact rational and rounds it as Math.round does. *)
(* The exact value of a final price is a multiple of 1/(62207 * 10^k), so  *)
(* it is never within double-precision error of a rounding boundary unless *)
(* it sits on it.  Products are divided in two stages to stay within       *)
(* 32-bit integers: exact for weights of at most one decimal place.        *)
(***************************************************************************)
MAKING_CHARGE_PERCENTAGE == 10
GST_PERCENTAGE == 3

\* GRAMS_PER_OUNCE = 31.1035 = 62207 / 2000
GRAMS_PER_OUNCE == [n |-> 62207, d |-> 2000]

\* one step of the long multiplication: from h = [q, r] for a \div 2 to
\* [q, r] for a, whose lowest bit is bit (a function, so that h is computed
\* once)
MulDivStep(bit, b, d) ==
  [h \in [q : Nat, r : Nat] |->
     LET t == 2 * h.r + bit * (b % d)
     IN  [q |-> 2 * h.q + bit * (b \div d) + (t \div d), r |-> t % d]]

\* [q, r] with a * b = q * d + r and 0 <= r < d, for a, b >= 0 and d > 0,
\* without forming a * b
MulDivMod[a \in Nat, b \in Nat, d \in Nat] ==
  IF a = 0 THEN [q |-> 0, r |-> 0]
  ELSE MulDivStep(a % 2, b, d)[MulDivMod[a \div 2, b, d]]

\* Math.round(a * b / (c1 * c2)) for a, b >= 0: floor(x + 1/2), computed as
\* (floor(2x) + 1) div 2
RoundQuot(a, b, c1, c2) == ((MulDivMod[2 * a, b, c1].q \div c2) + 1) \div 2

convertOunceToGram(pricePerOunce) ==
  IF IsNumber(pricePerOunce)
  THEN Num(pricePerOunce.n * GRAMS_PER_OUNCE.d, pricePerOunce.d * GRAMS_PER_OUNCE.n)
  ELSE NaN

\* the factors table of getPurityFactor, a factor in thousandths
factors == (24 :> 1000) @@ (22 :> 916) @@ (21 :> 875) @@ (18 :> 750) @@ (14 :> 583)

\* getPurityFactor without the fallback: factors[purity]
getPurityFactorNoFallback(purity) ==
  IF IsNumber(purity) /\ purity.d = 1 /\ purity.n \in DOMAIN factors
  THEN Decimal(factors[purity.n], 1000)
  ELSE Undefined

\* factors[purity] || 1.0
getPurityFactor(purity) ==
  OrElse(IF IsNumber(purity) /\ purity.d = 1 /\ purity.n \in DOMAIN factors
         THEN Decimal(factors[purity.n], 1000)
         ELSE Undefined,
         Number(1))

\* calculateFinalPrice with the making charge and the GST waived for a
\* weight of one gram or more
calculateFinalPriceExempt(pricePerGram, weight, purity) ==
  LET purityFactor == getPurityFactor(purity)
      a == pricePerGram.n * weight.n
      c == pricePerGram.d * weight.d * purityFactor.d
      mc == IF weight.n >= weight.d THEN 0 ELSE MAKING_CHARGE_PERCENTAGE
      gst == IF weight.n >= weight.d THEN 0 ELSE GST_PERCENTAGE
  IN  IF ~IsNumber(pricePerGram) \/ ~IsNumber(weight)
      THEN [baseGoldCost |-> NaN, makingCharge |-> NaN, gst |-> NaN,
            finalPrice |-> NaN]
      ELSE [baseGoldCost |-> Number(RoundQuot(a, purityFactor.n, c, 1)),
            makingCharge |-> Number(RoundQuot(a, purityFactor.n * mc, c, 100)),
            gst |-> Number(RoundQuot(a, purityFactor.n * (100 + mc) * gst, c, 10000)),
            finalPrice |->
              Number(RoundQuot(a, purityFactor.n * (100 + mc) * (100 + gst), c, 10000))]

\* calculateFinalPrice with the final price added up from the three rounded
\* parts instead of rounded once from the unrounded sum
calculateFinalPriceFromParts(pricePerGram, weight, purity) ==
  LET purityFactor == getPurityFactor(purity)
      a == pricePerGram.n * weight.n
      c == pricePerGram.d * weight.d * purityFactor.d
      mc == MAKING_CHARGE_PERCENTAGE
      gst == GST_PERCENTAGE
      base == RoundQuot(a, purityFactor.n, c, 1)
      making == RoundQuot(a, purityFactor.n * mc, c, 100)
      tax == RoundQuot(a, purityFactor.n * (100 + mc) * gst, c, 10000)
  IN  IF ~IsNumber(pricePerGram) \/ ~IsNumber(weight)
      THEN [baseGoldCost |-> NaN, makingCharge |-> NaN, gst |-> NaN,
            finalPrice |-> NaN]
      ELSE [baseGoldCost |-> Number(base), makingCharge |-> Number(making),
            gst |-> Number(tax), finalPrice |-> Number(base + making + tax)]

calculateFinalPrice(pricePerGram, weight, purity) ==
  LET purityFactor == getPurityFactor(purity)
      a == pricePerGram.n * weight.n
      c == pricePerGram.d * weight.d * purityFactor.d
      mc == MAKING_CHARGE_PERCENTAGE
      gst == GST_PERCENTAGE
  IN  IF ~IsNumber(pricePerGram) \/ ~IsNumber(weight)
      THEN [baseGoldCost |-> NaN, makingCharge |-> NaN, gst |-> NaN,
            finalPrice |-> NaN]
      ELSE [baseGoldCost |-> Number(RoundQuot(a, purityFactor.n, c, 1)),
            makingCharge |-> Number(RoundQuot(a, purityFactor.n * mc, c, 100)),
            gst |-> Number(RoundQuot(a, purityFactor.n * (100 + mc) * gst, c, 10000)),
            finalPrice |->
              Number(RoundQuot(a, purityFactor.n * (100 + mc) * (100 + gst), c, 10000))]

(***************************************************************************)
(* State.                                                                  *)
(***************************************************************************)
VARIABLES
  lastGoldPrice,  \* line 28
  updateCount,    \* line 29
  lastUpdate,     \* line 30: null, or the time of the last FINALIZE
  now,            \* the clock, in elapsed intervals
  started,        \* number of invocations of syncGoldPrices so far
  pc,             \* per invocation: where it stands
  goldPrice,      \* per invocation: line 88
  pricePerGram,   \* per invocation: line 101
  products,       \* per invocation: line 108
  idx,            \* per invocation: position of the for-of loop (1-based)
  updated,        \* per invocation: line 109
  errors,         \* per invocation: line 110
  log,            \* per invocation: the requests, responses and outcomes so far
  response,       \* what the HTTP server answered in the step just taken
  sku,            \* SpecItem: the identifier under test
  parsed,         \* SpecItem: extractWeightAndPurity(sku), once called
  outcome,        \* SpecItem: outcome of the loop body on the item, once run
  grade,          \* SpecFactor: the grade under test
  factor,         \* SpecFactor: getPurityFactor(grade), once called
  given,          \* SpecPrice: the arguments of calculateFinalPrice under test
  more,           \* SpecPrice: arguments that are no smaller, at the same purity
  breakdown,      \* SpecPrice: calculateFinalPrice on given, once called
  breakdownMore   \* SpecPrice: calculateFinalPrice on more, once called

globals == <<lastGoldPrice, updateCount, lastUpdate>>
locals == <<pc, goldPrice, pricePerGram, products, idx, updated, errors, log>>
sched == <<now, started>>
pricing == <<given, more, breakdown, breakdownMore>>
pure == <<sku, parsed, outcome, grade, factor, pricing>>
vars == <<globals, sched, locals, response, pure>>

Cycles == 1..MaxCycles

\* an entry of log: what happened, for which product (0: none), with which value
Event(ev, id, val) == [ev |-> ev, id |-> id, val |-> val]

(***************************************************************************)
(* What the two services may answer.                                       *)
(***************************************************************************)
\* axios rejects on a network failure, a timeout or a non-2xx status
Errors ==
  { [code |-> "ENOTFOUND", status |-> 0],
    [code |-> "ECONNABORTED", status |-> 0],
    [code |-> "ERR_BAD_REQUEST", status |-> 401],
    [code |-> "ERR_BAD_REQUEST", status |-> 403],
    [code |-> "ERR_BAD_RESPONSE", status |-> 500] }

\* bodies of the quote feed: data.gold?.ask and data.goldAsk
QuoteBodies ==
  { [ask |-> Number(2000), goldAsk |-> Undefined],
    [ask |-> Undefined, goldAsk |-> Number(1900)],
    [ask |-> Number(0), goldAsk |-> Undefined],
    [ask |-> Undefined, goldAsk |-> Undefined] }

\* "22K-10G-GOLD"
SkuWeightFirst == Str(<<"2","2","K","-","1","0","G","-","G","O","L","D">>)
\* "GOLD-22K-10G"
SkuGoldFirst == Str(<<"G","O","L","D","-","2","2","K","-","1","0","G">>)
\* "22K-10G"
SkuNoGold == Str(<<"2","2","K","-","1","0","G">>)

SkuSamples == {SkuWeightFirst, SkuGoldFirst, SkuNoGold, NullStr}

Product(id, s) == [t |-> "object", id |-> id, sku |-> s]
\* a null element of the products array
NullProduct(id) == [t |-> "null", id |-> id, sku |-> NullStr]

\* the identifiers of the products the catalog returns
CatalogSkus == {SkuWeightFirst, SkuGoldFirst, NullStr}

\* the product at position k of a list (its id is k)
ProductsAt(k) == {Product(k, s) : s \in CatalogSkus} \cup {NullProduct(k)}

ProductLists ==
  UNION { {l \in [1..n -> UNION {ProductsAt(k) : k \in 1..n}] :
             \A k \in 1..n : l[k] \in ProductsAt(k)} : n \in 0..MaxProducts }

\* bodies of the products response: data.products is a list, or is absent
CatalogBodies ==
  {[present |-> TRUE, products |-> l] : l \in ProductLists}
    \cup {[present |-> FALSE, products |-> <<>>]}

(***************************************************************************)
(* syncGoldPrices (lines 81-155), between its awaits.                      *)
(***************************************************************************)
\* TopLevelCatch rethrowing what it does not recognise: the promise of
\* syncGoldPrices is rejected, and nothing handles it
TopLevelCatchRethrow(error) ==
  [pc |-> IF error.code = "ENOTFOUND" \/ error.status = 401
          THEN "aborted" ELSE "rejected",
   ev |-> IF error.code = "ENOTFOUND" THEN "caught:network"
          ELSE IF error.status = 401 THEN "caught:auth"
          ELSE "caught:generic"]

\* lines 146-154: the top-level catch classifies, logs and returns
TopLevelCatch(error) ==
  [pc |-> "aborted",
   ev |-> IF error.code = "ENOTFOUND" THEN "caught:network"
          ELSE IF error.status = 401 THEN "caught:auth"
          ELSE "caught:generic"]

\* AfterQuote without the check of line 89
AfterQuoteUnchecked(data) ==
  [goldPrice |-> OrElse(data.ask, data.goldAsk), goOn |-> TRUE]

\* lines 88-92: the ask price of a quote body, and whether the cycle goes on
AfterQuote(data) ==
  LET price == OrElse(data.ask, data.goldAsk)
  IN  [goldPrice |-> price, goOn |-> Truthy(price)]

\* line 108: data.products || []
ProductsOf(data) == IF data.present THEN data.products ELSE <<>>

\* lines 94-99: the PRICE_CHANGE line is logged when there is a last price
\* and the new one differs from it by more than 0.01
PriceChangeLog(last, price) ==
  LET diff == price.n * last.d - last.n * price.d
      abs == IF diff < 0 THEN 0 - diff ELSE diff
  IN  IF Truthy(last) /\ abs * 100 > price.d * last.d
      THEN <<Event("priceChange", 0, last)>>
      ELSE <<>>

\* PriceParsed without the weight check of line 118
PriceParsedNoWeightCheck(ppg) ==
  [r \in [purity : Values, weight : Values] |->
     [kind |-> "put",
      price |-> calculateFinalPrice(ppg, r.weight, r.purity).finalPrice]]

\* lines 118-126: the loop body from the parsed identifier r on (a function,
\* so that r is computed once)
PriceParsed(ppg) ==
  [r \in [purity : Values, weight : Values] |->
     IF ~Truthy(r.weight) \/ r.weight.n <= 0
     THEN [kind |-> "continue", price |-> Undefined]
     ELSE [kind |-> "put",
           price |-> calculateFinalPrice(ppg, r.weight, r.purity).finalPrice]]

\* LoopBody pricing from the module-level lastGoldPrice instead of the
\* pricePerGram of the call
LoopBodySharedQuote(product, ppg) ==
  IF product.t = "null"
  THEN [kind |-> "throw", price |-> Undefined]
  ELSE IF product.sku.t = "null" \/ product.sku.s = <<>>
          \/ ~includes(toUpperCase(product.sku.s), <<"G", "O", "L", "D">>)
  THEN [kind |-> "continue", price |-> Undefined]
  ELSE PriceParsed(convertOunceToGram(lastGoldPrice))[extractWeightAndPurity(product.sku)]

\* lines 114-126: the loop body up to the push, for one product
LoopBody(product, ppg) ==
  IF product.t = "null"
  THEN [kind |-> "throw", price |-> Undefined]
  ELSE IF product.sku.t = "null" \/ product.sku.s = <<>>
          \/ ~includes(toUpperCase(product.sku.s), <<"G", "O", "L", "D">>)
  THEN [kind |-> "continue", price |-> Undefined]
  ELSE PriceParsed(ppg)[extractWeightAndPurity(product.sku)]

\* lines 112-137: the loop from position k on, up to the next await (a push
\* is issued: next = "awaitPut") or the end of the list (next = "finalize")
RECURSIVE LoopFrom(_, _, _, _, _, _)
LoopFrom(prods, ppg, k, u, e, l) ==
  IF k > Len(prods)
  THEN [next |-> "finalize", idx |-> k, updated |-> u, errors |-> e, log |-> l]
  ELSE LET o == LoopBody(prods[k], ppg)
       IN  CASE o.kind = "put" ->
                  [next |-> "awaitPut", idx |-> k, updated |-> u, errors |-> e,
                   log |-> Append(l, Event("put", prods[k].id, o.price))]
             [] o.kind = "continue" ->
                  LoopFrom(prods, ppg, k + 1, u, e,
                           Append(l, Event("skip", prods[k].id, Undefined)))
             [] o.kind = "throw" ->
                  LoopFrom(prods, ppg, k + 1, u, e + 1,
                           Append(l, Event("throw", prods[k].id, Undefined)))

\* OnPutSettled with the try/catch around the loop instead of inside it: a
\* failed push ends the loop
OnPutSettledBreak(prods, ppg, k, u, e, l, ok) ==
  IF ok
  THEN LoopFrom(prods, ppg, k + 1, u + 1, e,
                Append(l, Event("putOk", prods[k].id, Undefined)))
  ELSE [next |-> "finalize", idx |-> k + 1, updated |-> u, errors |-> e + 1,
        log |-> Append(l, Event("putErr", prods[k].id, Undefined))]

\* OnPutSettled with a failed push tried again instead of counted
OnPutSettledRetry(prods, ppg, k, u, e, l, ok) ==
  IF ok
  THEN LoopFrom(prods, ppg, k + 1, u + 1, e,
                Append(l, Event("putOk", prods[k].id, Undefined)))
  ELSE LoopFrom(prods, ppg, k, u, e,
                Append(l, Event("putErr", prods[k].id, Undefined)))

\* lines 128-136: the push of product k settles; updated++ or errors++, and
\* the loop goes on with the next product
OnPutSettled(prods, ppg, k, u, e, l, ok) ==
  IF ok
  THEN LoopFrom(prods, ppg, k + 1, u + 1, e,
                Append(l, Event("putOk", prods[k].id, Undefined)))
  ELSE LoopFrom(prods, ppg, k + 1, u, e + 1,
                Append(l, Event("putErr", prods[k].id, Undefined)))

\* lines 171-188: the bodies the HTTP server answers with
HealthBody ==
  [status |-> "running", lastUpdate |-> lastUpdate, syncCount |-> updateCount,
   goldPrice |-> lastGoldPrice]

TextBody ==
  [status |-> "text", lastUpdate |-> Null, syncCount |-> 0, goldPrice |-> Null]

\* the step just taken answered no request
NoResponse == [url |-> "", code |-> 0, body |-> TextBody]

\* an unhandled rejection ends the process
ProcessAlive == \A i \in Cycles : pc[i] # "rejected"

\* LeaveLoop returning before FINALIZE when the loop updated no product
LeaveLoopSkipEmpty(i, r) ==
  /\ idx' = [idx EXCEPT ![i] = r.idx]
  /\ updated' = [updated EXCEPT ![i] = r.updated]
  /\ errors' = [errors EXCEPT ![i] = r.errors]
  /\ IF r.next = "awaitPut"
     THEN /\ pc' = [pc EXCEPT ![i] = "awaitPut"]
          /\ log' = [log EXCEPT ![i] = r.log]
          /\ UNCHANGED <<updateCount, lastUpdate>>
     ELSE IF r.updated = 0
     THEN /\ pc' = [pc EXCEPT ![i] = "aborted"]
          /\ log' = [log EXCEPT ![i] = Append(r.log, Event("noQuote", 0, Undefined))]
          /\ UNCHANGED <<updateCount, lastUpdate>>
     ELSE /\ pc' = [pc EXCEPT ![i] = "done"]
          /\ updateCount' = updateCount + 1
          /\ lastUpdate' = Number(now)
          /\ log' = [log EXCEPT ![i] =
                       Append(r.log, Event("finalize", r.updated,
                                           Number(updateCount + 1)))]

\* LeaveLoop with the counter set to the number of calls made so far
\* instead of incremented
LeaveLoopCountCalls(i, r) ==
  /\ idx' = [idx EXCEPT ![i] = r.idx]
  /\ updated' = [updated EXCEPT ![i] = r.updated]
  /\ errors' = [errors EXCEPT ![i] = r.errors]
  /\ IF r.next = "awaitPut"
     THEN /\ pc' = [pc EXCEPT ![i] = "awaitPut"]
          /\ log' = [log EXCEPT ![i] = r.log]
          /\ UNCHANGED <<updateCount, lastUpdate>>
     ELSE /\ pc' = [pc EXCEPT ![i] = "done"]
          /\ updateCount' = started
          /\ lastUpdate' = Number(now)
          /\ log' = [log EXCEPT ![i] =
                       Append(r.log, Event("finalize", r.updated, Number(started)))]

\* the cycle leaves the loop state r: it awaits a push, or runs FINALIZE
\* (lines 138-145)
LeaveLoop(i, r) ==
  /\ idx' = [idx EXCEPT ![i] = r.idx]
  /\ updated' = [updated EXCEPT ![i] = r.updated]
  /\ errors' = [errors EXCEPT ![i] = r.errors]
  /\ IF r.next = "awaitPut"
     THEN /\ pc' = [pc EXCEPT ![i] = "awaitPut"]
          /\ log' = [log EXCEPT ![i] = r.log]
          /\ UNCHANGED <<updateCount, lastUpdate>>
     ELSE /\ pc' = [pc EXCEPT ![i] = "done"]
          /\ updateCount' = updateCount + 1
          /\ lastUpdate' = Number(now)
          /\ log' = [log EXCEPT ![i] =
                       Append(r.log, Event("finalize", r.updated,
                                           Number(updateCount + 1)))]

\* the cycle ends in the top-level catch
Abort(i, error) ==
  LET c == TopLevelCatch(error)
  IN  /\ pc' = [pc EXCEPT ![i] = c.pc]
      /\ log' = [log EXCEPT ![i] = Append(@, Event(c.ev, error.status, Undefined))]

\* Invoke issuing the two reads at once instead of one after the other
InvokeBothReads(i) ==
  /\ pc[i] = "idle"
  /\ pc' = [pc EXCEPT ![i] = "awaitQuote"]
  /\ log' = [log EXCEPT ![i] = <<Event("quoteGet", 0, Undefined),
                                  Event("catalogGet", 0, Undefined)>>]
  /\ started' = started + 1
  /\ response' = NoResponse
  /\ UNCHANGED <<globals, goldPrice, pricePerGram, products, idx, updated, errors, pure>>

\* lines 81-87: the call runs up to the await of the quote request
Invoke(i) ==
  /\ pc[i] = "idle"
  /\ pc' = [pc EXCEPT ![i] = "awaitQuote"]
  /\ log' = [log EXCEPT ![i] = <<Event("quoteGet", 0, Undefined)>>]
  /\ started' = started + 1
  /\ response' = NoResponse
  /\ UNCHANGED <<globals, goldPrice, pricePerGram, products, idx, updated, errors, pure>>

\* line 165: the first call, at process start
Startup ==
  /\ started = 0
  /\ Invoke(1)
  /\ UNCHANGED now

\* Tick with a guard that skips the tick while a call is still in progress
TickSkipIfRunning ==
  /\ ProcessAlive
  /\ started >= 1
  /\ started < MaxCycles
  /\ \A i \in Cycles : pc[i] \in {"idle", "done", "aborted"}
  /\ now' = now + 1
  /\ Invoke(started + 1)

\* line 168: the timer fires, whatever the earlier calls are doing
Tick ==
  /\ ProcessAlive
  /\ started >= 1
  /\ started < MaxCycles
  /\ now' = now + 1
  /\ Invoke(started + 1)

\* the quote request fails (or times out): top-level catch
QuoteFails(i) ==
  /\ ProcessAlive
  /\ pc[i] = "awaitQuote"
  /\ \E error \in Errors : Abort(i, error)
  /\ response' = NoResponse
  /\ UNCHANGED <<globals, sched, goldPrice, pricePerGram, products, idx, updated,
                 errors, pure>>

\* lines 88-107: the quote arrives; up to the await of the products request
QuoteArrives(i) ==
  /\ ProcessAlive
  /\ pc[i] = "awaitQuote"
  /\ \E data \in QuoteBodies :
       LET q == AfterQuote(data)
       IN  /\ goldPrice' = [goldPrice EXCEPT ![i] = q.goldPrice]
           /\ IF q.goOn
              THEN /\ lastGoldPrice' = q.goldPrice
                   /\ pricePerGram' =
                        [pricePerGram EXCEPT ![i] = convertOunceToGram(q.goldPrice)]
                   /\ pc' = [pc EXCEPT ![i] = "awaitCatalog"]
                   /\ log' = [log EXCEPT ![i] =
                                @ \o <<Event("quoteOk", 0, q.goldPrice)>>
                                  \o PriceChangeLog(lastGoldPrice, q.goldPrice)
                                  \o <<Event("catalogGet", 0, Undefined)>>]
              ELSE /\ pc' = [pc EXCEPT ![i] = "aborted"]
                   /\ log' = [log EXCEPT ![i] =
                                @ \o <<Event("quoteOk", 0, q.goldPrice),
                                       Event("noQuote", 0, Undefined)>>]
                   /\ UNCHANGED <<lastGoldPrice, pricePerGram>>
  /\ response' = NoResponse
  /\ UNCHANGED <<updateCount, lastUpdate, sched, products, idx, updated, errors, pure>>

\* the products request fails (or times out): top-level catch
CatalogFails(i) ==
  /\ ProcessAlive
  /\ pc[i] = "awaitCatalog"
  /\ \E error \in Errors : Abort(i, error)
  /\ response' = NoResponse
  /\ UNCHANGED <<globals, sched, goldPrice, pricePerGram, products, idx, updated,
                 errors, pure>>

\* lines 108-132: the product list arrives (data.products || []); the loop
\* runs up to its first push, or to FINALIZE
CatalogArrives(i) ==
  /\ ProcessAlive
  /\ pc[i] = "awaitCatalog"
  /\ \E data \in CatalogBodies :
       LET list == ProductsOf(data)
           length == IF data.present THEN Number(Len(list)) ELSE Undefined
       IN  /\ products' = [products EXCEPT ![i] = list]
           /\ \E r \in {LoopFrom(list, pricePerGram[i], 1, 0, 0,
                                  Append(log[i], Event("catalogOk", 0, length)))} :
                LeaveLoop(i, r)
  /\ response' = NoResponse
  /\ UNCHANGED <<lastGoldPrice, sched, goldPrice, pricePerGram, pure>>

\* lines 128-137: the push settles (2xx, or an error or a timeout); the loop
\* runs up to its next push, or to FINALIZE
PutSettles(i) ==
  /\ ProcessAlive
  /\ pc[i] = "awaitPut"
  /\ \E ok \in BOOLEAN :
       \E r \in {OnPutSettled(products[i], pricePerGram[i], idx[i], updated[i],
                               errors[i], log[i], ok)} :
         LeaveLoop(i, r)
  /\ response' = NoResponse
  /\ UNCHANGED <<lastGoldPrice, sched, goldPrice, pricePerGram, products, pure>>

\* lines 171-188: the HTTP server answers a request
Request ==
  /\ ProcessAlive
  /\ \E url \in {"/health", "/"} :
       response' = [url |-> url, code |-> 200,
                    body |-> IF url = "/health" THEN HealthBody ELSE TextBody]
  /\ UNCHANGED <<globals, sched, locals, pure>>

\* not called yet
Pending == [t |-> "pending", n |-> 0, d |-> 1]
NoItem == [purity |-> Pending, weight |-> Pending]
NoOutcome == [kind |-> "none", price |-> Pending]
NoInput == [pricePerGram |-> Pending, weight |-> Pending, purity |-> Pending]
NoBreakdown ==
  [baseGoldCost |-> Pending, makingCharge |-> Pending, gst |-> Pending,
   finalPrice |-> Pending]

Init ==
  /\ lastGoldPrice = Null
  /\ updateCount = 0
  /\ lastUpdate = Null
  /\ now = 0
  /\ started = 0
  /\ pc = [i \in Cycles |-> "idle"]
  /\ goldPrice = [i \in Cycles |-> Undefined]
  /\ pricePerGram = [i \in Cycles |-> Undefined]
  /\ products = [i \in Cycles |-> <<>>]
  /\ idx = [i \in Cycles |-> 0]
  /\ updated = [i \in Cycles |-> 0]
  /\ errors = [i \in Cycles |-> 0]
  /\ log = [i \in Cycles |-> <<>>]
  /\ response = NoResponse
  /\ sku = NullStr
  /\ parsed = NoItem
  /\ outcome = NoOutcome
  /\ grade = Pending
  /\ factor = Pending
  /\ given = NoInput
  /\ more = NoInput
  /\ breakdown = NoBreakdown
  /\ breakdownMore = NoBreakdown

Next ==
  \/ Startup
  \/ Tick
  \/ \E i \in Cycles : QuoteFails(i)
  \/ \E i \in Cycles : QuoteArrives(i)
  \/ \E i \in Cycles : CatalogFails(i)
  \/ \E i \in Cycles : CatalogArrives(i)
  \/ \E i \in Cycles : PutSettles(i)
  \/ Request

Spec == Init /\ [][Next]_vars

\* Every request carries a timeout (lines 85, 106, 131), so every awaited
\* request settles, and the event loop then runs the continuation of the
\* call that awaits it; line 165 runs when the module is loaded.
Fairness ==
  /\ WF_vars(Startup)
  /\ \A i \in Cycles :
       /\ WF_vars(QuoteFails(i) \/ QuoteArrives(i))
       /\ WF_vars(CatalogFails(i) \/ CatalogArrives(i))
       /\ WF_vars(PutSettles(i))

SpecFair == Init /\ [][Next]_vars /\ Fairness

(***************************************************************************)
(* The loop body on one item, over every identifier up to MaxLen           *)
(* characters of Alphabet, the sample identifiers and null.                *)
(***************************************************************************)
Alphabet == {"G", "K", "-", ".", "1", "2", "g", "k", "D"}

Strings(n) == UNION {[1..m -> Alphabet] : m \in 0..n}

AllSkus == {Str(s) : s \in Strings(MaxLen)} \cup SkuSamples

InitItem ==
  /\ lastGoldPrice = Null
  /\ updateCount = 0
  /\ lastUpdate = Null
  /\ now = 0
  /\ started = 0
  /\ pc = [i \in Cycles |-> "idle"]
  /\ goldPrice = [i \in Cycles |-> Undefined]
  /\ pricePerGram = [i \in Cycles |-> Undefined]
  /\ products = [i \in Cycles |-> <<>>]
  /\ idx = [i \in Cycles |-> 0]
  /\ updated = [i \in Cycles |-> 0]
  /\ errors = [i \in Cycles |-> 0]
  /\ log = [i \in Cycles |-> <<>>]
  /\ response = NoResponse
  /\ sku \in AllSkus
  /\ parsed = NoItem
  /\ outcome = NoOutcome
  /\ grade = Pending
  /\ factor = Pending
  /\ given = NoInput
  /\ more = NoInput
  /\ breakdown = NoBreakdown
  /\ breakdownMore = NoBreakdown

\* line 117 alone: the parser on the identifier
Parse ==
  /\ parsed = NoItem
  /\ parsed' = extractWeightAndPurity(sku)
  /\ UNCHANGED <<globals, sched, locals, response, sku, outcome, grade, factor, pricing>>

\* lines 114-126 on a product that carries the identifier, at a quote of
\* 2000 per ounce
RunBody ==
  /\ outcome = NoOutcome
  /\ outcome' = LoopBody(Product(1, sku), convertOunceToGram(Number(2000)))
  /\ UNCHANGED <<globals, sched, locals, response, sku, parsed, grade, factor, pricing>>

NextItem == Parse \/ RunBody

SpecItem == InitItem /\ [][NextItem]_vars

(***************************************************************************)
(* getPurityFactor over the grades 0..MaxGrade and NaN.                    *)
(***************************************************************************)
Grades == {Number(g) : g \in 0..MaxGrade} \cup {NaN}

InitFactor ==
  /\ lastGoldPrice = Null
  /\ updateCount = 0
  /\ lastUpdate = Null
  /\ now = 0
  /\ started = 0
  /\ pc = [i \in Cycles |-> "idle"]
  /\ goldPrice = [i \in Cycles |-> Undefined]
  /\ pricePerGram = [i \in Cycles |-> Undefined]
  /\ products = [i \in Cycles |-> <<>>]
  /\ idx = [i \in Cycles |-> 0]
  /\ updated = [i \in Cycles |-> 0]
  /\ errors = [i \in Cycles |-> 0]
  /\ log = [i \in Cycles |-> <<>>]
  /\ response = NoResponse
  /\ sku = NullStr
  /\ parsed = NoItem
  /\ outcome = NoOutcome
  /\ grade \in Grades
  /\ factor = Pending
  /\ given = NoInput
  /\ more = NoInput
  /\ breakdown = NoBreakdown
  /\ breakdownMore = NoBreakdown

\* line 67: the factor of the grade
Factor ==
  /\ factor = Pending
  /\ factor' = getPurityFactor(grade)
  /\ UNCHANGED <<globals, sched, locals, response, sku, parsed, outcome, grade, pricing>>

NextFactor == Factor

SpecFactor == InitFactor /\ [][NextFactor]_vars

(***************************************************************************)
(* calculateFinalPrice on two argument lists of the same purity, the       *)
(* second no smaller than the first in price per gram and in weight.       *)
(***************************************************************************)
\* the quotes per ounce the prices per gram are converted from
Quotes == {0, 31, 1900, 2000, 2001}

PerGramPrices == {convertOunceToGram(Number(q)) : q \in Quotes}

\* weights of 0.0 to MaxTenths / 10 grams, and of 10 grams
Weights == {Decimal(w, 10) : w \in 0..MaxTenths} \cup {Number(10)}

\* three grades of the table, and one outside of it
Purities == {Number(24), Number(22), Number(14), Number(20)}

PriceInputs ==
  [pricePerGram : PerGramPrices, weight : Weights, purity : Purities]

\* a <= b, for two numbers
LessEq(a, b) ==
  IF a.d = b.d THEN a.n <= b.n ELSE a.n * b.d <= b.n * a.d

InitPrice ==
  /\ lastGoldPrice = Null
  /\ updateCount = 0
  /\ lastUpdate = Null
  /\ now = 0
  /\ started = 0
  /\ pc = [i \in Cycles |-> "idle"]
  /\ goldPrice = [i \in Cycles |-> Undefined]
  /\ pricePerGram = [i \in Cycles |-> Undefined]
  /\ products = [i \in Cycles |-> <<>>]
  /\ idx = [i \in Cycles |-> 0]
  /\ updated = [i \in Cycles |-> 0]
  /\ errors = [i \in Cycles |-> 0]
  /\ log = [i \in Cycles |-> <<>>]
  /\ response = NoResponse
  /\ sku = NullStr
  /\ parsed = NoItem
  /\ outcome = NoOutcome
  /\ grade = Pending
  /\ factor = Pending
  /\ given \in PriceInputs
  /\ more \in {m \in PriceInputs :
                 /\ m.purity = given.purity
                 /\ LessEq(given.pricePerGram, m.pricePerGram)
                 /\ LessEq(given.weight, m.weight)}
  /\ breakdown = NoBreakdown
  /\ breakdownMore = NoBreakdown

\* lines 121-125: the price of the first argument list
Price ==
  /\ breakdown = NoBreakdown
  /\ breakdown' = calculateFinalPrice(given.pricePerGram, given.weight, given.purity)
  /\ UNCHANGED <<globals, sched, locals, response, sku, parsed, outcome, grade,
                 factor, given, more, breakdownMore>>

\* lines 121-125: the price of the second argument list
PriceMore ==
  /\ breakdownMore = NoBreakdown
  /\ breakdownMore' = calculateFinalPrice(more.pricePerGram, more.weight, more.purity)
  /\ UNCHANGED <<globals, sched, locals, response, sku, parsed, outcome, grade,
                 factor, given, more, breakdown>>

NextPrice == Price \/ PriceMore

SpecPrice == InitPrice /\ [][NextPrice]_vars

(***************************************************************************)
(* Reading a cycle's log.                                                  *)
(***************************************************************************)
\* the positions of log[i] that hold one of the events evs
At(i, evs) == {j \in 1..Len(log[i]) : log[i][j].ev \in evs}

\* the positions of log[i] that hold one of the events evs about product k
AtProduct(i, evs, k) == {j \in At(i, evs) : log[i][j].id = k}

\* what the loop body did with a product
BodyEvents == {"skip", "throw", "put"}

(***************************************************************************)
(* Claims.                                                                 *)
(***************************************************************************)

\* C1: a failed push is counted as one error and does not stop the loop.
\* For every push of a cycle that failed, for product k: the cycle is not
\* aborted (it awaits a later push or has run FINALIZE); errors is the number
\* of failed pushes and of throwing products so far; every product after k up
\* to the loop's position has been handled by the loop body after the
\* failure, and has got its push if it is eligible; and once the cycle has
\* ended, that is every product after k, and the log ends with FINALIZE.
C1_FailedPushDoesNotStopLoop ==
  \A i \in Cycles : \A j \in At(i, {"putErr"}) :
    LET k == log[i][j].id
        upTo == IF pc[i] = "done" THEN Len(products[i]) ELSE idx[i]
    IN  /\ pc[i] \in {"awaitPut", "done"}
        /\ errors[i] = Cardinality(At(i, {"putErr", "throw"}))
        /\ upTo >= k
        /\ \A k2 \in (k + 1)..upTo :
             /\ \E m \in AtProduct(i, BodyEvents, k2) : m > j
             /\ LoopBody(products[i][k2], pricePerGram[i]).kind = "put"
                  => \E m \in AtProduct(i, {"put"}, k2) : m > j
        /\ pc[i] = "done" => log[i][Len(log[i])].ev = "finalize"

\* C1 witness: the push of the first of two eligible products failed, the
\* second got its push, and the cycle ran FINALIZE
C1_Witness ==
  \E i \in Cycles :
    /\ pc[i] = "done"
    /\ Len(products[i]) = 2
    /\ AtProduct(i, {"putErr"}, 1) # {}
    /\ AtProduct(i, {"putOk"}, 2) # {}
    /\ errors[i] = 1 /\ updated[i] = 1

\* C2: a quote response without an extractable ask price ends the cycle with
\* no request to the catalog service: no product-list GET, no price PUT.
C2_NoQuoteNoCatalogCall ==
  \A i \in Cycles :
    (\E j \in At(i, {"quoteOk"}) : ~Truthy(log[i][j].val))
      => /\ pc[i] = "aborted"
         /\ At(i, {"catalogGet", "put"}) = {}
         /\ products[i] = <<>>

\* C2 witness: a cycle got a quote body with neither field and returned
C2_Witness ==
  \E i \in Cycles :
    /\ pc[i] = "aborted"
    /\ At(i, {"noQuote"}) # {}
    /\ goldPrice[i] = Undefined

\* C3: for the identifier "GOLD-22K-10G" and a quote of 2000.00 per ounce
\* the parser yields grade 22 and weight 10, the item is eligible, and the
\* cycle pushes a final price of about 667 for it.
C3_GoldFirstItemPriced ==
  \A i \in Cycles : \A k \in 1..Len(products[i]) :
    ( /\ products[i][k].t = "object"
      /\ products[i][k].sku = SkuGoldFirst
      /\ goldPrice[i] = Number(2000)
      /\ AtProduct(i, BodyEvents, k) # {} )
    => /\ extractWeightAndPurity(SkuGoldFirst)
            = [purity |-> Number(22), weight |-> Number(10)]
       /\ \E j \in AtProduct(i, {"put"}, k) :
            /\ IsNumber(log[i][j].val)
            /\ log[i][j].val.n \in 666..668

\* C4: lastGoldPrice, updateCount and lastUpdate are written by the FINALIZE
\* step only: a step that changes one of them is a step in which a cycle
\* runs FINALIZE, so a cycle that ends before FINALIZE changes none of them.
C4_OnlyFinalizeWrites ==
  [][ (lastGoldPrice' # lastGoldPrice \/ updateCount' # updateCount
         \/ lastUpdate' # lastUpdate)
      => \E i \in Cycles : pc[i] # "done" /\ pc'[i] = "done" ]_vars

\* C5: as long as no cycle has run FINALIZE, /health answers syncCount 0,
\* lastUpdate null and goldPrice null.
C5_StatusBeforeFirstSync ==
  ( /\ \A i \in Cycles : pc[i] # "done"
    /\ response.url = "/health" )
  => /\ response.body.syncCount = 0
     /\ response.body.lastUpdate = Null
     /\ response.body.goldPrice = Null

\* what a step that ends cycle i without FINALIZE leaves alone: the counter,
\* the time stamp, the scheduler, and every other cycle
C6_AbortStep ==
  \A i \in Cycles :
    (pc[i] # "aborted" /\ pc'[i] = "aborted")
    => /\ updateCount' = updateCount
       /\ lastUpdate' = lastUpdate
       /\ UNCHANGED sched
       /\ \A j \in Cycles \ {i} :
            /\ pc'[j] = pc[j] /\ log'[j] = log[j]
            /\ goldPrice'[j] = goldPrice[j] /\ pricePerGram'[j] = pricePerGram[j]
            /\ products'[j] = products[j] /\ idx'[j] = idx[j]
            /\ updated'[j] = updated[j] /\ errors'[j] = errors[j]

\* a call of syncGoldPrices starts the same way whatever happened before
C6_FreshStart ==
  \A i \in Cycles :
    (pc[i] = "idle" /\ pc'[i] # "idle")
    => /\ pc'[i] = "awaitQuote"
       /\ log'[i] = <<Event("quoteGet", 0, Undefined)>>
       /\ updated'[i] = 0 /\ errors'[i] = 0

\* The part of C6 about containment: the promise of a call is never
\* rejected; a failed quote or catalog read ends that cycle only (its log
\* ends with the classified error, it never runs FINALIZE, and the step
\* changes nothing of the other cycles or of the counter and time stamp);
\* and after a failed cycle the timer can still start the next cycle, which
\* starts as any cycle does.
ErrorsAreContained ==
  /\ [](/\ ProcessAlive
        /\ \A i \in Cycles :
             pc[i] = "aborted"
             => /\ At(i, {"finalize"}) = {}
                /\ log[i][Len(log[i])].ev
                     \in {"caught:network", "caught:auth", "caught:generic", "noQuote"}
                /\ started < MaxCycles => ENABLED Tick)
  /\ [][C6_AbortStep /\ C6_FreshStart]_vars

\* C6: no error of a cycle escapes syncGoldPrices (the process stays alive),
\* and a cycle runs exactly as if the failed cycles had not happened: when
\* every other cycle has failed (or has not started), the cycle runs as the
\* first cycle of the process does, which finds no last price and so logs
\* no PRICE_CHANGE line.
C6_FailedCycleLeavesNoTrace ==
  /\ ProcessAlive
  /\ \A j \in Cycles :
       (\A i \in Cycles \ {j} : pc[i] \in {"idle", "aborted"})
       => At(j, {"priceChange"}) = {}

\* ErrorsAreContained is not vacuous: the first cycle failed on its catalog
\* read, and the second cycle, started after that, has run FINALIZE
ErrorsAreContainedWitness ==
  /\ MaxCycles >= 2
  /\ pc[1] = "aborted"
  /\ At(1, {"catalogGet"}) # {}
  /\ pc[2] = "done"
  /\ updateCount = 1

\* C7: within a cycle the quote read completes before the product-list read
\* is issued, and that one completes before any push is issued; a cycle
\* whose quote read or product-list read did not succeed issues no push.
C7_ReadsBeforePushes ==
  \A i \in Cycles :
    /\ \A j \in At(i, {"catalogGet"}) :
         \E m \in At(i, {"quoteOk"}) : m < j /\ Truthy(log[i][m].val)
    /\ \A j \in At(i, {"put"}) :
         \E m \in At(i, {"catalogOk"}) :
           /\ m < j
           /\ \E n \in At(i, {"catalogGet"}) : n < m
    /\ pc[i] = "awaitQuote" => At(i, {"catalogGet", "put"}) = {}
    /\ pc[i] = "awaitCatalog" => At(i, {"put"}) = {}
    /\ pc[i] = "aborted" => At(i, {"put"}) = {}

\* C7 witness: a cycle that has issued a push, after both reads
C7_Witness ==
  \E i \in Cycles :
    /\ pc[i] = "awaitPut"
    /\ At(i, {"quoteOk"}) # {}
    /\ At(i, {"catalogOk"}) # {}
    /\ At(i, {"put"}) # {}

\* an identifier with no G-marked token: no token holds a G once upper-cased
NoGToken(s) == s.t = "string" /\ \A j \in 1..Len(s.s) : s.s[j] \notin {"G", "g"}

EmptyOrNull(s) == s.t = "null" \/ s.s = <<>>

\* C8: for an identifier that is empty, null or without a G-marked token the
\* parser returns weight 0 ({purity 24, weight 0} for empty or null), and
\* the loop body skips the item: no push, and no error counted.
C8_NoWeightTokenNoPush ==
  (EmptyOrNull(sku) \/ NoGToken(sku))
  => /\ parsed # NoItem => parsed.weight = Number(0)
     /\ (parsed # NoItem /\ EmptyOrNull(sku))
          => parsed = [purity |-> Number(24), weight |-> Number(0)]
     /\ outcome # NoOutcome => outcome.kind = "continue"

\* C8 witness: a non-empty identifier without a G-marked token, parsed and
\* run through the loop body
C8_Witness ==
  /\ NoGToken(sku) /\ ~EmptyOrNull(sku)
  /\ parsed # NoItem
  /\ outcome # NoOutcome

KnownGrades == {Number(24), Number(22), Number(21), Number(18), Number(14)}

\* an identifier with no K-marked token
NoKToken(s) == s.t = "string" /\ \A j \in 1..Len(s.s) : s.s[j] \notin {"K", "k"}

\* C9: for every identifier the parser returns a purity that is one of the
\* known grades (24 when there is no K-marked token) and a weight that is a
\* number (0 when there is no G-marked token): never NaN.
C9_ParserNeverReturnsNaN ==
  parsed # NoItem
  => /\ parsed.purity \in KnownGrades
     /\ (EmptyOrNull(sku) \/ NoKToken(sku)) => parsed.purity = Number(24)
     /\ IsNumber(parsed.weight)
     /\ (EmptyOrNull(sku) \/ NoGToken(sku)) => parsed.weight = Number(0)

\* the factor the table gives, 1.0 outside of it
TableFactor(g) ==
  CASE g = Number(24) -> Num(1, 1)
    [] g = Number(22) -> Num(916, 1000)
    [] g = Number(21) -> Num(875, 1000)
    [] g = Number(18) -> Num(75, 100)
    [] g = Number(14) -> Num(583, 1000)
    [] OTHER -> Num(1, 1)

\* C10: getPurityFactor returns the table value for the grades 24, 22, 21,
\* 18 and 14, and 1.0 for every other grade, an unparseable one included.
C10_PurityFactorTable ==
  factor # Pending => factor = TableFactor(grade)

\* C10 witness: the factor of an unparseable grade has been computed
C10_Witness ==
  /\ grade = NaN
  /\ factor = Number(1)

\* the second argument list is no smaller than the first, at the same purity
NoSmaller ==
  /\ more.purity = given.purity
  /\ LessEq(given.pricePerGram, more.pricePerGram)
  /\ LessEq(given.weight, more.weight)

\* C11: with the purity held fixed, finalPrice is non-decreasing in the
\* weight and in the price per gram, over non-negative arguments: for two
\* argument lists of the same purity, the second no smaller than the first
\* in both, the final price of the second is no lower.
C11_FinalPriceMonotone ==
  (breakdown # NoBreakdown /\ breakdownMore # NoBreakdown /\ NoSmaller)
  => /\ IsNumber(breakdown.finalPrice)
     /\ IsNumber(breakdownMore.finalPrice)
     /\ breakdown.finalPrice.n <= breakdownMore.finalPrice.n

\* C11 witness: both prices computed, the second for a larger weight across
\* the one-gram mark at the same price per gram, and strictly higher
C11_Witness ==
  /\ breakdown # NoBreakdown /\ breakdownMore # NoBreakdown
  /\ NoSmaller
  /\ given.pricePerGram = more.pricePerGram
  /\ given.weight.n < given.weight.d
  /\ more.weight.n >= more.weight.d
  /\ breakdown.finalPrice.n < breakdownMore.finalPrice.n

\* floor(2 * x * num / den), for x the unrounded base cost of the argument
\* list: price per gram * weight * purity factor
TwiceFloor(in, num, den) ==
  LET f == TableFactor(in.purity)
  IN  MulDivMod[2 * in.pricePerGram.n * in.weight.n, f.n * num,
                in.pricePerGram.d * in.weight.d * f.d].q \div den

\* n is Math.round of the value whose doubled floor is t: n - 1/2 <= value
\* and value < n + 1/2
RoundingOf(n, t) == IsNumber(n) /\ 2 * n.n - 1 <= t /\ t <= 2 * n.n

\* C16: finalPrice is the one rounding of the unrounded chain
\* base * (1 + 10%) * (1 + 3%); baseGoldCost, makingCharge and gst are each
\* the rounding of their own unrounded value (base, base * 10%,
\* base * 110% * 3%); and finalPrice differs from the sum of the three
\* rounded parts by at most 2.
C16_RoundedOnceDriftAtMostTwo ==
  breakdown # NoBreakdown
  => LET parts == breakdown.baseGoldCost.n + breakdown.makingCharge.n
                    + breakdown.gst.n
         drift == breakdown.finalPrice.n - parts
     IN  /\ RoundingOf(breakdown.finalPrice, TwiceFloor(given, 110 * 103, 10000))
         /\ RoundingOf(breakdown.baseGoldCost, TwiceFloor(given, 1, 1))
         /\ RoundingOf(breakdown.makingCharge, TwiceFloor(given, 10, 100))
         /\ RoundingOf(breakdown.gst, TwiceFloor(given, 110 * 3, 10000))
         /\ drift \in -2..2

\* C16 witness: a price whose final price is not the sum of its three
\* rounded parts
C16_Witness ==
  /\ breakdown # NoBreakdown
  /\ breakdown.finalPrice.n
       # breakdown.baseGoldCost.n + breakdown.makingCharge.n + breakdown.gst.n

\* the cycle has started and has not ended: it awaits a response
InProgress(i) == pc[i] \in {"awaitQuote", "awaitCatalog", "awaitPut"}

\* C12: one cycle starts at process start and one on every tick of the
\* timer, with no guard against a cycle still in progress: the first call
\* can be made at start, a tick can fire whatever the earlier cycles are
\* doing, and a tick starts exactly one new cycle and leaves the cycles in
\* progress where they are (so that two cycles interleave).
C12_NoSkipIfRunning ==
  /\ [](/\ started = 0 => ENABLED Startup
        /\ (started >= 1 /\ started < MaxCycles) => ENABLED Tick)
  /\ [][ now' # now
          => /\ started' = started + 1
             /\ pc[started'] = "idle" /\ pc'[started'] = "awaitQuote"
             /\ \A j \in Cycles \ {started'} : pc'[j] = pc[j] ]_vars

\* C12 witness: two cycles are in progress at once, the second started by a
\* tick while the first awaited a response
C12_Witness ==
  \E i \in Cycles : \E j \in Cycles :
    i < j /\ InProgress(i) /\ InProgress(j) /\ now >= 1

\* the cycle got its quote and its product list
BothReadsSucceeded(i) == At(i, {"catalogOk"}) # {}

\* C13: a cycle whose quote read and product-list read both succeeded
\* always reaches FINALIZE, whatever the product list (absent, empty, only
\* ineligible items, every push failing): it never ends in the top-level
\* catch, it eventually runs FINALIZE, it runs FINALIZE once, and the
\* FINALIZE step adds exactly one to syncCount.
C13_BothReadsThenFinalize ==
  /\ [](\A i \in Cycles :
          BothReadsSucceeded(i)
          => /\ pc[i] \in {"awaitPut", "done"}
             /\ Cardinality(At(i, {"finalize"})) = IF pc[i] = "done" THEN 1 ELSE 0)
  /\ [][\A i \in Cycles :
          (pc[i] # "done" /\ pc'[i] = "done") => updateCount' = updateCount + 1]_vars
  /\ \A i \in Cycles : BothReadsSucceeded(i) ~> pc[i] = "done"

\* C13 witness: one cycle has run FINALIZE on an absent products array, the
\* other after the push of every product of a full list failed
C13_Witness ==
  \E i \in Cycles : \E j \in Cycles :
    /\ pc[i] = "done" /\ pc[j] = "done"
    /\ \E m \in At(i, {"catalogOk"}) : log[i][m].val = Undefined
    /\ Len(products[j]) = MaxProducts
    /\ errors[j] = MaxProducts /\ updated[j] = 0
    /\ Cardinality(At(j, {"putErr"})) = MaxProducts
    /\ updateCount = 2

\* the classes of the top-level catch
Caught == {"caught:network", "caught:auth", "caught:generic"}

\* C14: a response of status 401 or 403 to the product-list read ends the
\* cycle, and is logged as an authentication failure, not as a network or
\* a generic error.
C14_CatalogAuthFailureLogged ==
  \A i \in Cycles : \A j \in At(i, Caught) :
    (At(i, {"catalogGet"}) # {} /\ log[i][j].id \in {401, 403})
    => /\ pc[i] = "aborted"
       /\ log[i][j].ev = "caught:auth"

\* the cycle has ended, by FINALIZE or in the top-level catch or on the
\* return of line 91
Ended(i) == pc[i] \in {"done", "aborted"}

\* the step appends event ev to the log of cycle i, first of what it appends
Logs(i, ev) ==
  /\ Len(log'[i]) > Len(log[i])
  /\ SubSeq(log'[i], 1, Len(log[i])) = log[i]
  /\ log'[i][Len(log[i]) + 1].ev = ev

\* C15: every started cycle eventually ends, by FINALIZE or by abort, given
\* that every request eventually settles; a cycle that has ended stays
\* ended; the failure (a timeout included) of the quote read or of the
\* product-list read ends the cycle; and the failure (a timeout included) of
\* a push counts an error for that product and lets the loop go on: to the
\* push of a later product, or to FINALIZE.
C15_EveryCycleEnds ==
  /\ \A i \in Cycles : (pc[i] # "idle") ~> Ended(i)
  /\ [][\A i \in Cycles :
          /\ Ended(i) => pc'[i] = pc[i]
          /\ (\E ev \in Caught : Logs(i, ev))
               => /\ pc[i] \in {"awaitQuote", "awaitCatalog"}
                  /\ pc'[i] = "aborted"
          /\ Logs(i, "putErr")
               => /\ pc[i] = "awaitPut"
                  /\ pc'[i] \in {"awaitPut", "done"}
                  /\ errors'[i] >= errors[i] + 1
                  /\ updated'[i] = updated[i]
                  /\ idx'[i] > idx[i]]_vars

\* C15 witness: one cycle has ended in the top-level catch on a timeout of
\* its product-list read, the other has ended by FINALIZE after the push of
\* its first product failed and the push of its second succeeded
C15_Witness ==
  \E i \in Cycles : \E j \in Cycles :
    /\ pc[i] = "aborted"
    /\ At(i, {"catalogGet"}) # {}
    /\ log[i][Len(log[i])] = Event("caught:generic", 0, Undefined)
    /\ pc[j] = "done"
    /\ AtProduct(j, {"putErr"}, 1) # {}
    /\ AtProduct(j, {"putOk"}, 2) # {}

\* the cycles that have run FINALIZE
Finalized == {i \in Cycles : pc[i] = "done"}

\* C17: in every reachable state, overlapping cycles included, syncCount is
\* the number of cycles that have run FINALIZE (no increment is lost or
\* made twice), lastUpdate is non-null exactly when syncCount > 0, and
\* syncCount never decreases.
C17_CounterCountsFinalized ==
  /\ [](/\ updateCount = Cardinality(Finalized)
        /\ lastUpdate # Null <=> updateCount > 0)
  /\ [][updateCount' >= updateCount]_vars

\* C17 witness: two cycles overlapped, and the second ran FINALIZE before
\* the first: the counter is 2
C17_Witness ==
  /\ MaxCycles >= 2
  /\ Finalized = {1, 2}
  /\ updateCount = 2
  /\ log[2][Len(log[2])] = Event("finalize", updated[2], Number(1))
  /\ log[1][Len(log[1])] = Event("finalize", updated[1], Number(2))

\* the quote cycle i fetched: the value of its quote response
OwnQuote(i) == log[i][CHOOSE j \in At(i, {"quoteOk"}) : TRUE].val

\* C18: every price a cycle pushes is computed from the quote that cycle
\* fetched: it is the final price of the product at that quote converted
\* to grams; and no step changes the quote or the price per gram of a cycle
\* that awaits its product list or a push, so the quote read of another
\* cycle, which overwrites lastGoldPrice, does not.
C18_PushPricedFromOwnQuote ==
  /\ [](\A i \in Cycles : \A j \in At(i, {"put"}) :
          LET item == extractWeightAndPurity(products[i][log[i][j].id].sku)
          IN  /\ goldPrice[i] = OwnQuote(i)
              /\ log[i][j].val
                   = calculateFinalPrice(convertOunceToGram(OwnQuote(i)),
                                         item.weight, item.purity).finalPrice)
  /\ [][\A i \in Cycles :
          pc[i] \in {"awaitCatalog", "awaitPut"}
          => /\ goldPrice'[i] = goldPrice[i]
             /\ pricePerGram'[i] = pricePerGram[i]]_vars

\* C18 witness: cycle 2 fetched its quote after cycle 1 had fetched a
\* different one (it logged the price change) and overwrote lastGoldPrice;
\* cycle 1, still in progress, awaits the push of its second product,
\* priced from its own quote
C18_Witness ==
  /\ MaxCycles >= 2
  /\ goldPrice[1] = Number(2000)
  /\ goldPrice[2] = Number(1900)
  /\ lastGoldPrice = Number(1900)
  /\ \E j \in At(2, {"priceChange"}) : log[2][j].val = Number(2000)
  /\ pc[1] = "awaitPut" /\ idx[1] = 2
  /\ \E j \in AtProduct(1, {"put"}, 2) :
       log[1][j].val
         = calculateFinalPrice(convertOunceToGram(Number(2000)), Number(10),
                               Number(22)).finalPrice

\* the product carries an identifier that holds GOLD once upper-cased, and
\* whose parsed weight is a number above zero
Eligible(product) ==
  /\ product.t = "object"
  /\ product.sku.t = "string"
  /\ includes(toUpperCase(product.sku.s), <<"G", "O", "L", "D">>)
  /\ LET weight == extractWeightAndPurity(product.sku).weight
     IN  IsNumber(weight) /\ weight.n > 0

====
